---------------------------- MODULE Spec2Model ----------------------------
(***************************************************************************)
(* Model of tpc_server.py (Total PC Commander MCP server).                 *)
(*                                                                         *)
(* Spec      : the auto-refresh capture loop.  One dispatcher (the asyncio *)
(*             event loop: the tool coroutines contain no await, so they   *)
(*             run one at a time) and the background threads created by    *)
(*             start_auto_refresh.  The dispatcher and the threads         *)
(*             interleave between any two accesses of the module globals.  *)
(* SpecFiles : the stateless file handlers read_file and list_directory.   *)
(***************************************************************************)
EXTENDS Integers, Sequences, FiniteSets, TLC

\* ----- bounds of the model -----
MaxThreads == 2      \* threads start_auto_refresh may create in one run
MaxCaptures == 1     \* successful screen grabs in one run
MaxCalls == 3        \* tool calls the dispatcher serves in one run

\* qualities the caller may pass: below, inside and above the range [1, 100]
Qualities == {0, 60, 101}
\* start_auto_refresh(interval, quality) calls: intervals below, inside and
\* above [2, 60].  The handler never combines the two arguments, so each value
\* of one is tried with one value of the other.
StartArgs == {<<1, 101>>, <<5, 60>>, <<61, 0>>}

Threads == 1..MaxThreads

VARIABLES
    refresh_thread,        \* _refresh_thread: 0 is None, else a thread id
    refresh_active,        \* _refresh_active
    refresh_interval,      \* _refresh_interval
    last_screenshot,       \* _last_screenshot: 0 is None, else the id of the cycle that encoded the bytes
    last_screenshot_time,  \* _last_screenshot_time: 0 initially, else the id of the cycle that took the time
    thr,                   \* the threads: position, arguments, local buffer
    ncap,                  \* number of capture cycles that produced a frame
    d,                     \* the dispatcher: handler being run, position, locals
    result,                \* what the last finished tool call returned
    ncalls,                \* number of tool calls served so far
    fs                     \* last result of a file handler (SpecFiles)

capture == <<refresh_thread, refresh_active, refresh_interval,
             last_screenshot, last_screenshot_time>>
vars == <<refresh_thread, refresh_active, refresh_interval, last_screenshot,
          last_screenshot_time, thr, ncap, d, result, ncalls, fs>>

Max2(a, b) == IF a >= b THEN a ELSE b
Min2(a, b) == IF a <= b THEN a ELSE b

\* line 147 with the lower bound forgotten: min(60, interval)
ClampIntervalNoFloor(interval) == Min2(60, interval)

\* line 147: interval = max(2, min(60, interval))
ClampInterval(interval) == Max2(2, Min2(60, interval))

\* line 148: quality = max(1, min(100, quality))
ClampQualityRefresh(quality) == Max2(1, Min2(100, quality))

\* line 51: quality = max(1, min(100, quality))
ClampQualityScreen(quality) == Max2(1, Min2(100, quality))

\* line 78 with a lower bound of 0: max(0, min(100, quality))
ClampQualityWindowFromZero(quality) == Max2(0, Min2(100, quality))

\* line 78: quality = max(1, min(100, quality))
ClampQualityWindow(quality) == Max2(1, Min2(100, quality))

\* threading.Thread.is_alive(): started and run() has not returned
IsAlive(t) == thr[t].pc \notin {"unborn", "dead"}

NoThread == [pc |-> "unborn", interval |-> 0, quality |-> 0, buf |-> 0]
DeadThread == [pc |-> "dead", interval |-> 0, quality |-> 0, buf |-> 0]
\* d: pc is the line the handler is about to run; a_in, q_in the arguments as
\* passed; a, q the locals interval and quality; t the time read at line 199;
\* ctx and first describe the call that came before (used by the properties).
Idle == [pc |-> "idle", a_in |-> 0, q_in |-> 0, a |-> 0, q |-> 0, t |-> 0,
         ctx |-> "none", first |-> 0]
\* result: op the handler, kind the text it returned, arg and qarg the interval
\* and quality passed to a start that launched, v the interval reported or the
\* frame returned, t the time the age was computed from.
NoResult == [op |-> "none", kind |-> "none", arg |-> 0, qarg |-> 0, v |-> 0, t |-> 0,
             ctx |-> "none", first |-> 0]
Result(op, kind, arg, qarg, v, t) ==
    [op |-> op, kind |-> kind, arg |-> arg, qarg |-> qarg, v |-> v, t |-> t,
     ctx |-> d.ctx, first |-> d.first]
NoFs == [op |-> "none"]

Init ==
    /\ refresh_thread = 0
    /\ refresh_active = FALSE
    /\ refresh_interval = 0
    /\ last_screenshot = 0
    /\ last_screenshot_time = 0
    /\ thr = [t \in Threads |-> NoThread]
    /\ ncap = 0
    /\ d = Idle
    /\ result = NoResult
    /\ ncalls = 0
    /\ fs = NoFs

Launched == {t \in Threads : thr[t].pc # "unborn"}
NextTid == Cardinality(Launched) + 1

\* ------------------------------------------------------------------------
\* _refresh_capture_thread(interval, quality), lines 110-132
\* ------------------------------------------------------------------------

\* line 114: _refresh_active = True
Thread_l114(t) ==
    /\ thr[t].pc = "l114"
    /\ refresh_active' = TRUE
    /\ thr' = [thr EXCEPT ![t].pc = "l115"]
    /\ UNCHANGED <<refresh_thread, refresh_interval, last_screenshot,
                   last_screenshot_time, ncap, d, result, ncalls, fs>>

\* line 115: while _refresh_active
Thread_l115(t) ==
    /\ thr[t].pc = "l115"
    /\ thr' = [thr EXCEPT ![t].pc = IF refresh_active THEN "l118" ELSE "l132"]
    /\ UNCHANGED <<capture, ncap, d, result, ncalls, fs>>

\* lines 118-122: grab the screen and encode it into the local buffer
Thread_grab_ok(t) ==
    /\ thr[t].pc = "l118"
    /\ ncap < MaxCaptures
    /\ ncap' = ncap + 1
    /\ thr' = [thr EXCEPT ![t].pc = "l123", ![t].buf = ncap + 1]
    /\ UNCHANGED <<capture, d, result, ncalls, fs>>

\* Mutant: the exception is not caught, and the thread function unwinds
GrabFailEndsThread(t) ==
    /\ thr[t].pc = "l118"
    /\ thr' = [thr EXCEPT ![t] = DeadThread]
    /\ UNCHANGED <<capture, ncap, d, result, ncalls, fs>>

\* lines 118-122 raise: control goes to the except clause, line 128
Thread_grab_fail(t) ==
    /\ thr[t].pc = "l118"
    /\ thr' = [thr EXCEPT ![t].pc = "l129"]
    /\ UNCHANGED <<capture, ncap, d, result, ncalls, fs>>

\* line 123: _last_screenshot = buffer.getvalue()
Thread_l123(t) ==
    /\ thr[t].pc = "l123"
    /\ last_screenshot' = thr[t].buf
    /\ thr' = [thr EXCEPT ![t].pc = "l124"]
    /\ UNCHANGED <<refresh_thread, refresh_active, refresh_interval,
                   last_screenshot_time, ncap, d, result, ncalls, fs>>

\* line 124: _last_screenshot_time = time.time()
Thread_l124(t) ==
    /\ thr[t].pc = "l124"
    /\ last_screenshot_time' = thr[t].buf
    /\ thr' = [thr EXCEPT ![t].pc = "l127", ![t].buf = 0]
    /\ UNCHANGED <<refresh_thread, refresh_active, refresh_interval,
                   last_screenshot, ncap, d, result, ncalls, fs>>

\* line 127: time.sleep(interval) after a stored frame
Thread_l127(t) ==
    /\ thr[t].pc = "l127"
    /\ thr' = [thr EXCEPT ![t].pc = "l115"]
    /\ UNCHANGED <<capture, ncap, d, result, ncalls, fs>>

\* line 129: time.sleep(interval) in the except clause
Thread_l129(t) ==
    /\ thr[t].pc = "l129"
    /\ thr' = [thr EXCEPT ![t].pc = "l115"]
    /\ UNCHANGED <<capture, ncap, d, result, ncalls, fs>>

\* line 132: _last_screenshot = None, then the thread ends
Thread_l132(t) ==
    /\ thr[t].pc = "l132"
    /\ last_screenshot' = 0
    /\ thr' = [thr EXCEPT ![t] = DeadThread]
    /\ UNCHANGED <<refresh_thread, refresh_active, refresh_interval,
                   last_screenshot_time, ncap, d, result, ncalls, fs>>

\* ------------------------------------------------------------------------
\* capture_screen(quality), lines 41-64, and capture_window(window_title,
\* quality), lines 67-108.  Neither touches the module globals, so each call
\* is one step.  In their results v is the quality handed to the JPEG encoder
\* and arg the quality the caller passed.
\* ------------------------------------------------------------------------

\* grab_ok: ImageGrab.grab() and the encoding succeed; otherwise the except
\* clause of line 63 returns the error text and nothing is encoded
Capture_screen(quality, grab_ok) ==
    /\ d.pc = "idle"
    /\ ncalls < MaxCalls
    /\ ncalls' = ncalls + 1
    /\ result' = IF grab_ok
                 THEN [NoResult EXCEPT !.op = "capture_screen", !.kind = "image",
                                       !.arg = quality, !.v = ClampQualityScreen(quality)]
                 ELSE [NoResult EXCEPT !.op = "capture_screen", !.kind = "error"]
    /\ UNCHANGED <<capture, thr, ncap, d, fs>>

\* titled: window_title is not empty; found: FindWindow returned a handle
\* (lines 81-84); without a title the foreground window is taken (lines 86-89)
Capture_window(titled, found, quality, grab_ok) ==
    /\ d.pc = "idle"
    /\ ncalls < MaxCalls
    /\ ncalls' = ncalls + 1
    /\ result' = IF titled /\ ~found
                 THEN [NoResult EXCEPT !.op = "capture_window", !.kind = "not_found"]
                 ELSE IF grab_ok
                 THEN [NoResult EXCEPT !.op = "capture_window", !.kind = "image",
                                       !.arg = quality, !.v = ClampQualityWindow(quality)]
                 ELSE [NoResult EXCEPT !.op = "capture_window", !.kind = "error"]
    /\ UNCHANGED <<capture, thr, ncap, d, fs>>

\* ------------------------------------------------------------------------
\* start_auto_refresh(interval, quality), lines 135-168
\* ------------------------------------------------------------------------

\* What the call before this one was, as far as a start is concerned: "repeat"
\* when it was a start that launched a loop (no stop in between), with the
\* interval that start confirmed.
StartCtx(r) == IF r.op = "start" /\ r.kind = "started" THEN "repeat" ELSE "first"

\* The call, lines 147-148 (both arguments are clamped) and lines 151-152.
\* The three operands of line 151 are read one after the other; only the
\* dispatcher clears _refresh_active or assigns _refresh_thread, and a thread
\* that is dead stays dead, so the outcome is that of one atomic evaluation.
Start_l151(interval, quality) ==
    /\ d.pc = "idle"
    /\ ncalls < MaxCalls
    /\ NextTid <= MaxThreads
    /\ ncalls' = ncalls + 1
    /\ IF refresh_active /\ refresh_thread # 0 /\ IsAlive(refresh_thread)
       THEN /\ result' = [op |-> "start", kind |-> "already", arg |-> 0, qarg |-> 0,
                          v |-> refresh_interval, t |-> 0,
                          ctx |-> StartCtx(result), first |-> result.v]
            /\ d' = Idle
       ELSE /\ d' = [Idle EXCEPT !.pc = "l155",
                                 !.a_in = interval, !.q_in = quality,
                                 !.a = ClampInterval(interval),
                                 !.q = ClampQualityRefresh(quality),
                                 !.ctx = StartCtx(result), !.first = result.v]
            /\ result' = NoResult
    /\ UNCHANGED <<capture, thr, ncap, fs>>

\* line 155: if _refresh_thread and _refresh_thread.is_alive()
Start_l155 ==
    /\ d.pc = "l155"
    /\ d' = [d EXCEPT !.pc = IF refresh_thread # 0 /\ IsAlive(refresh_thread)
                             THEN "l156" ELSE "l160"]
    /\ UNCHANGED <<capture, thr, ncap, result, ncalls, fs>>

\* line 156: _refresh_active = False
Start_l156 ==
    /\ d.pc = "l156"
    /\ refresh_active' = FALSE
    /\ d' = [d EXCEPT !.pc = "l157"]
    /\ UNCHANGED <<refresh_thread, refresh_interval, last_screenshot,
                   last_screenshot_time, thr, ncap, result, ncalls, fs>>

\* line 157: _refresh_thread.join(1.0) returns when the thread has ended or
\* when the second has passed, whichever comes first
Start_l157 ==
    /\ d.pc = "l157"
    /\ d' = [d EXCEPT !.pc = "l160"]
    /\ UNCHANGED <<capture, thr, ncap, result, ncalls, fs>>

\* lines 160-168: record the interval, create and start the thread, confirm.
\* No thread reads _refresh_interval or _refresh_thread.
Start_l160 ==
    /\ d.pc = "l160"
    /\ refresh_interval' = d.a
    /\ refresh_thread' = NextTid
    /\ thr' = [thr EXCEPT ![NextTid] =
                   [pc |-> "l114", interval |-> d.a, quality |-> d.q, buf |-> 0]]
    /\ result' = Result("start", "started", d.a_in, d.q_in, d.a, 0)
    /\ d' = Idle
    /\ UNCHANGED <<refresh_active, last_screenshot, last_screenshot_time, ncap,
                   ncalls, fs>>

\* ------------------------------------------------------------------------
\* stop_auto_refresh(), lines 171-185
\* ------------------------------------------------------------------------

\* Whether any capture thread is alive when stop is called.
StopCtx == IF \E t \in Threads : IsAlive(t) THEN "live" ELSE "no_thread"

\* lines 178-179 with the thread reference dropped before the status is
\* returned (_refresh_thread = None in the not-running branch)
StopForgetsThread ==
    /\ d.pc = "idle"
    /\ ncalls < MaxCalls
    /\ ncalls' = ncalls + 1
    /\ IF ~refresh_active \/ refresh_thread = 0 \/ ~IsAlive(refresh_thread)
       THEN /\ result' = [NoResult EXCEPT !.op = "stop", !.kind = "not_running",
                                          !.ctx = StopCtx]
            /\ d' = Idle
            /\ refresh_thread' = 0
       ELSE /\ d' = [Idle EXCEPT !.pc = "l182", !.ctx = StopCtx]
            /\ result' = NoResult
            /\ UNCHANGED refresh_thread
    /\ UNCHANGED <<refresh_active, refresh_interval, last_screenshot,
                   last_screenshot_time, thr, ncap, fs>>

\* the call and lines 178-179 (one atomic evaluation, as for line 151)
Stop_l178 ==
    /\ d.pc = "idle"
    /\ ncalls < MaxCalls
    /\ ncalls' = ncalls + 1
    /\ IF ~refresh_active \/ refresh_thread = 0 \/ ~IsAlive(refresh_thread)
       THEN /\ result' = [NoResult EXCEPT !.op = "stop", !.kind = "not_running",
                                          !.ctx = StopCtx]
            /\ d' = Idle
       ELSE /\ d' = [Idle EXCEPT !.pc = "l182", !.ctx = StopCtx]
            /\ result' = NoResult
    /\ UNCHANGED <<capture, thr, ncap, fs>>

\* line 182: _refresh_active = False
Stop_l182 ==
    /\ d.pc = "l182"
    /\ refresh_active' = FALSE
    /\ d' = [d EXCEPT !.pc = "l183"]
    /\ UNCHANGED <<refresh_thread, refresh_interval, last_screenshot,
                   last_screenshot_time, thr, ncap, result, ncalls, fs>>

\* lines 183-185: bounded join, then the confirmation
Stop_l183 ==
    /\ d.pc = "l183"
    /\ result' = Result("stop", "stopped", 0, 0, 0, 0)
    /\ d' = Idle
    /\ UNCHANGED <<capture, thr, ncap, ncalls, fs>>

\* ------------------------------------------------------------------------
\* get_last_screenshot(), lines 188-205
\* ------------------------------------------------------------------------

\* What the call before this one was, as far as a get is concerned: "fresh"
\* when start_auto_refresh was never called, "after_stop" when the call just
\* before was a stop that returned its confirmation, "newest_stored" when it
\* was a start that launched a thread and that thread has run line 123 in
\* the cycle it is in.
GetCtx(r) == IF ncalls = 0 \/ (Launched = {} /\ r.op # "start") THEN "fresh"
             ELSE IF r.op = "stop" /\ r.kind = "stopped" THEN "after_stop"
             ELSE IF /\ r.op = "start" /\ r.kind = "started"
                     /\ thr[refresh_thread].pc \in {"l124", "l127"}
                  THEN "newest_stored"
             ELSE "other"

\* the call and lines 195-196: if not _last_screenshot
Get_l195 ==
    /\ d.pc = "idle"
    /\ ncalls < MaxCalls
    /\ ncalls' = ncalls + 1
    /\ IF last_screenshot = 0
       THEN /\ result' = [NoResult EXCEPT !.op = "get", !.kind = "unavailable",
                                          !.ctx = GetCtx(result)]
            /\ d' = Idle
       ELSE /\ d' = [Idle EXCEPT !.pc = "l199", !.ctx = GetCtx(result)]
            /\ result' = NoResult
    /\ UNCHANGED <<capture, thr, ncap, fs>>

\* line 199: age = time.time() - _last_screenshot_time
Get_l199 ==
    /\ d.pc = "l199"
    /\ d' = [d EXCEPT !.pc = "l202", !.t = last_screenshot_time]
    /\ UNCHANGED <<capture, thr, ncap, result, ncalls, fs>>

\* lines 202-205: base64.b64encode(_last_screenshot) reads the global again;
\* b64encode(None) raises TypeError, and the handler has no try block
Get_l202 ==
    /\ d.pc = "l202"
    /\ result' = IF last_screenshot = 0
                 THEN Result("get", "raised", 0, 0, 0, 0)
                 ELSE Result("get", "frame", 0, 0, last_screenshot, d.t)
    /\ d' = Idle
    /\ UNCHANGED <<capture, thr, ncap, ncalls, fs>>

Next ==
    \/ \E q \in Qualities, ok \in BOOLEAN : Capture_screen(q, ok)
    \/ \E titled, found, ok \in BOOLEAN, q \in Qualities :
           Capture_window(titled, found, q, ok)
    \/ \E t \in Threads : Thread_l114(t)
    \/ \E t \in Threads : Thread_l115(t)
    \/ \E t \in Threads : Thread_grab_ok(t)
    \/ \E t \in Threads : Thread_grab_fail(t)
    \/ \E t \in Threads : Thread_l123(t)
    \/ \E t \in Threads : Thread_l124(t)
    \/ \E t \in Threads : Thread_l127(t)
    \/ \E t \in Threads : Thread_l129(t)
    \/ \E t \in Threads : Thread_l132(t)
    \/ \E iq \in StartArgs : Start_l151(iq[1], iq[2])
    \/ Start_l155
    \/ Start_l156
    \/ Start_l157
    \/ Start_l160
    \/ Stop_l178
    \/ Stop_l182
    \/ Stop_l183
    \/ Get_l195
    \/ Get_l199
    \/ Get_l202

Spec == Init /\ [][Next]_vars

\* Scheduling.  A thread that has been started is a daemon thread of the
\* interpreter: the operating system keeps running it, and its sleeps (lines
\* 127 and 129) end.  A handler the dispatcher has entered runs to its return:
\* it holds no lock and its join (lines 157 and 183) is bounded by one second.
\* Nothing obliges a client to make a call.
ThreadStep(t) ==
    \/ Thread_l114(t) \/ Thread_l115(t)
    \/ Thread_grab_ok(t) \/ Thread_grab_fail(t)
    \/ Thread_l123(t) \/ Thread_l124(t)
    \/ Thread_l127(t) \/ Thread_l129(t)
    \/ Thread_l132(t)

HandlerStep ==
    \/ Start_l155 \/ Start_l156 \/ Start_l157 \/ Start_l160
    \/ Stop_l182 \/ Stop_l183
    \/ Get_l199 \/ Get_l202

SpecFair ==
    /\ Spec
    /\ \A t \in Threads : WF_vars(ThreadStep(t))
    /\ WF_vars(HandlerStep)

\* ------------------------------------------------------------------------
\* File handlers: read_file (lines 519-549) and list_directory (lines 466-516)
\* ------------------------------------------------------------------------

MaxEntries == 3      \* entries of the directory that is listed

\* line 536: the limit, 1024 * 1024 bytes
MaxFileSize == 1024 * 1024

\* sizes of the file read_file is called on: around the limit
FileSizes == {0, 1048575, 1048576, 1048577, 2097152}

\* file names as sequences of code points: "B", "a", "ab", "b"
Names == {<<66>>, <<97>>, <<97, 98>>, <<98>>}
\* sizes in bytes of the files in the listed directory
EntrySizes == {0, 128, 1536}
\* what os.path.isdir and os.path.isfile say of an entry: a directory, a
\* regular file, or neither (both false)
Entries ==
    [name : Names, kind : {"dir", "other"}, size : {0}]
        \cup [name : Names, kind : {"file"}, size : EntrySizes]

\* os.listdir: the entries in arbitrary order, names distinct
DirListings ==
    UNION {{l \in [1..n -> Entries] :
               \A i, j \in 1..n : i # j => l[i].name # l[j].name} : n \in 0..MaxEntries}

\* format(x / unit, ".2f"): the quotient in hundredths, rounded to nearest,
\* ties to even (size / unit is exact in binary floating point)
Hundredths(size, unit) ==
    LET q == (size * 100) \div unit
        r == (size * 100) % unit
    IN  IF 2 * r > unit THEN q + 1
        ELSE IF 2 * r = unit THEN q + (q % 2)
        ELSE q

\* line 536 with >= for >: a file of exactly the limit is refused
TooLargeInclusive(size) == size >= MaxFileSize

\* line 536: os.path.getsize(full_path) > 1024 * 1024
TooLarge(size) == size > MaxFileSize

\* read_file(path).  exists: os.path.exists (line 532); size: os.path.getsize;
\* open_ok: open() and read() succeed (lines 540-541), otherwise they raise
\* and line 549 returns the error text.  In the result, opened tells whether
\* open() was called, mb is the size reported in hundredths of a MB, and
\* content tells whether the text read from the file is in the result.
Read_file(exists, size, open_ok) ==
    /\ fs' = IF ~exists
             THEN [op |-> "read_file", kind |-> "not_exists", exists |-> exists,
                   size |-> size, open_ok |-> open_ok, opened |-> FALSE,
                   mb |-> <<>>, content |-> FALSE]
             ELSE IF TooLarge(size)
             THEN [op |-> "read_file", kind |-> "too_large", exists |-> exists,
                   size |-> size, open_ok |-> open_ok, opened |-> FALSE,
                   mb |-> <<Hundredths(size, 1024 * 1024)>>, content |-> FALSE]
             ELSE IF open_ok
             THEN [op |-> "read_file", kind |-> "content", exists |-> exists,
                   size |-> size, open_ok |-> open_ok, opened |-> TRUE,
                   mb |-> <<>>, content |-> TRUE]
             ELSE [op |-> "read_file", kind |-> "error", exists |-> exists,
                   size |-> size, open_ok |-> open_ok, opened |-> TRUE,
                   mb |-> <<>>, content |-> FALSE]
    /\ UNCHANGED <<capture, thr, ncap, d, result, ncalls>>

\* str.__lt__: lexicographic order of the code points
RECURSIVE NameLess(_, _)
NameLess(a, b) ==
    IF b = <<>> THEN FALSE
    ELSE IF a = <<>> THEN TRUE
    ELSE IF Head(a) # Head(b) THEN Head(a) < Head(b)
    ELSE NameLess(Tail(a), Tail(b))

\* lines 495-500: the dictionary appended for an entry
Item(e) ==
    [name |-> e.name,
     type |-> IF e.kind = "dir" THEN "Directory" ELSE "File",
     size |-> IF e.kind = "file" THEN e.size ELSE 0]

\* line 503 with the type left out of the key: key=lambda x: x['name']
SortKeyNameOnly(x, y) == NameLess(x.name, y.name)

\* line 503: key=lambda x: (0 if x['type'] == 'Directory' else 1, x['name']),
\* compared as tuples
SortKeyLess(x, y) ==
    LET kx == IF x.type = "Directory" THEN 0 ELSE 1
        ky == IF y.type = "Directory" THEN 0 ELSE 1
    IN  kx < ky \/ (kx = ky /\ NameLess(x.name, y.name))

\* list.sort is stable: x goes before the first element that is greater
RECURSIVE InsertSorted(_, _)
InsertSorted(x, sorted) ==
    IF sorted = <<>> THEN <<x>>
    ELSE IF SortKeyLess(x, Head(sorted)) THEN <<x>> \o sorted
    ELSE <<Head(sorted)>> \o InsertSorted(x, Tail(sorted))

RECURSIVE SortContents(_)
SortContents(contents) ==
    IF contents = <<>> THEN <<>>
    ELSE InsertSorted(contents[Len(contents)],
                      SortContents(SubSeq(contents, 1, Len(contents) - 1)))

\* lines 510-512: one row of the table; size_str is empty for a directory,
\* else the size in hundredths of a KB
Row(item) ==
    [name |-> item.name, type |-> item.type,
     size_str |-> IF item.type = "File" THEN <<Hundredths(item.size, 1024)>> ELSE <<>>]

\* list_directory(path).  path: what lines 480 and 484 find ("missing", "file",
\* "dir"); listing: what os.listdir returns; stat_ok: os.listdir and the calls
\* of lines 491-493 succeed for every entry, otherwise line 516 returns the
\* error text.  The Modified column is not modelled.
List_directory(path, listing, stat_ok) ==
    /\ fs' = IF path = "missing"
             THEN [op |-> "list_directory", kind |-> "not_exists", listing |-> <<>>,
                   rows |-> <<>>]
             ELSE IF path = "file"
             THEN [op |-> "list_directory", kind |-> "not_a_directory",
                   listing |-> <<>>, rows |-> <<>>]
             ELSE IF ~stat_ok
             THEN [op |-> "list_directory", kind |-> "error", listing |-> listing,
                   rows |-> <<>>]
             ELSE [op |-> "list_directory", kind |-> "listing", listing |-> listing,
                   rows |-> LET sorted == SortContents([i \in 1..Len(listing) |->
                                                           Item(listing[i])])
                            IN  [i \in 1..Len(sorted) |-> Row(sorted[i])]]
    /\ UNCHANGED <<capture, thr, ncap, d, result, ncalls>>

\* ------------------------------------------------------------------------
\* execute_command(command), lines 261-288
\* ------------------------------------------------------------------------

MaxText == 2         \* characters of a text the command writes

\* the texts a command can write to its standard output and standard error
Chars == {"A", "X"}
Texts == UNION {[1..n -> Chars] : n \in 0..MaxText}

\* the return codes of the commands considered
ExitCodes == {0, 1}

\* {exit_code} of the f-string, line 284
ExitText(c) == IF c = 0 THEN "0" ELSE "1"

\* line 281: output = result.stdout or result.stderr
Output(stdout, stderr) == IF stdout # <<>> THEN stdout ELSE stderr

\* line 284: the f-string that is returned, as the sequence of its pieces (the
\* code fence stands for the line breaks and back quotes around the output)
Executed(exit_code, output) ==
    <<"Command executed with exit code ", ExitText(exit_code), ":", "fence">>
        \o output \o <<"fence">>

\* One call.  outcome is what subprocess.run does: "finished" (it returns a
\* result with the two texts and the return code), "timeout" (it raises
\* TimeoutExpired, line 285) or "error" (any other exception, line 287).
Execute_command(stdout, stderr, returncode, outcome) ==
    /\ fs' = [op |-> "execute_command", kind |-> outcome,
              stdout |-> stdout, stderr |-> stderr, returncode |-> returncode,
              text |-> IF outcome = "finished"
                       THEN Executed(returncode, Output(stdout, stderr))
                       ELSE IF outcome = "timeout"
                       THEN <<"Command timed out after 30 seconds">>
                       ELSE <<"Error executing command: ">>]
    /\ UNCHANGED <<capture, thr, ncap, d, result, ncalls>>

\* These handlers keep no state: a behaviour of SpecFiles is one call, on
\* any of the inputs above.
Call_read_file ==
    /\ fs = NoFs
    /\ \E exists, open_ok \in BOOLEAN, size \in FileSizes :
           Read_file(exists, size, open_ok)

Call_list_directory ==
    /\ fs = NoFs
    /\ \E path \in {"missing", "file", "dir"}, listing \in DirListings,
          stat_ok \in BOOLEAN :
           List_directory(path, listing, stat_ok)

Call_execute_command ==
    /\ fs = NoFs
    /\ \E stdout, stderr \in Texts, returncode \in ExitCodes,
          outcome \in {"finished", "timeout", "error"} :
           Execute_command(stdout, stderr, returncode, outcome)

NextFiles ==
    \/ Call_read_file
    \/ Call_list_directory
    \/ Call_execute_command

SpecFiles == Init /\ [][NextFiles]_vars

\* ========================================================================
\* Properties
\* ========================================================================

\* A thread that is in the loop and will stay in it: alive, not on its way
\* out, while the running flag is set.
Looping(t) == IsAlive(t) /\ thr[t].pc # "l132" /\ refresh_active

\* C1: at most one capture thread is alive and looping.  The states counted
\* are those where no handler is running and the flag is set, so that every
\* thread counted goes on capturing until the next stop.
C1_AtMostOneCaptureThread ==
    d.pc = "idle" => Cardinality({t \in Threads : Looping(t)}) <= 1

\* C2: a frame returned by get_last_screenshot pairs image bytes and a
\* timestamp written by the same capture cycle.
C2_FrameAndTimeFromSameCycle ==
    (result.op = "get" /\ result.kind = "frame") => result.v = result.t

\* C3: get_last_screenshot reports "no screenshot available" when called
\* before any start_auto_refresh and when called right after a
\* stop_auto_refresh that returned "stopped".
C3_UnavailableBeforeStartAndAfterStop ==
    (result.op = "get" /\ result.ctx \in {"fresh", "after_stop"})
        => result.kind = "unavailable"

\* C4: a start_auto_refresh that follows a start_auto_refresh which launched
\* a loop (no stop in between) launches nothing, reports the interval of the
\* first call and leaves the recorded interval at that value.
C4_SecondStartIsNoOp ==
    (result.op = "start" /\ result.ctx = "repeat")
        => /\ result.kind = "already"
           /\ result.v = result.first
           /\ refresh_interval = result.first

\* C5: start_auto_refresh, stop_auto_refresh and get_last_screenshot never
\* raise: every call returns one of its texts.
C5_HandlersNeverRaise == result.kind # "raised"

\* C6: stop_auto_refresh called while no capture thread is alive returns
\* "not currently running" at once and changes none of the capture state.
C6_StopWhenIdleIsNoOp ==
    [][ (/\ d.pc = "idle"
         /\ \A t \in Threads : ~IsAlive(t)
         /\ (result'.op = "stop" \/ d'.pc = "l182"))
        => (/\ result'.op = "stop"
            /\ result'.kind = "not_running"
            /\ d'.pc = "idle"
            /\ UNCHANGED <<capture, thr>>) ]_vars

\* C6 witness: a stop that found no thread alive, after a loop had run and
\* exited, has returned "not currently running".
C6_Witness ==
    /\ result.op = "stop" /\ result.kind = "not_running" /\ result.ctx = "no_thread"
    /\ refresh_thread # 0
    /\ last_screenshot_time # 0

\* max(lo, min(hi, x)) written out: the value of x brought into [lo, hi]
Clamped(x, lo, hi) == IF x < lo THEN lo ELSE IF x > hi THEN hi ELSE x

\* C7: after a start_auto_refresh that launched a loop, the interval reported,
\* the interval recorded and the interval of the launched thread are the
\* interval passed, brought into [2, 60].
C7_IntervalClamped ==
    (result.op = "start" /\ result.kind = "started")
        => /\ result.v = Clamped(result.arg, 2, 60)
           /\ refresh_interval = Clamped(result.arg, 2, 60)
           /\ thr[refresh_thread].interval = Clamped(result.arg, 2, 60)

\* C7 witness: a loop was launched with an interval above the range and runs
\* with 60.
C7_Witness ==
    /\ result.op = "start" /\ result.kind = "started"
    /\ result.arg > 60
    /\ thr[refresh_thread].interval = 60
    /\ thr[refresh_thread].pc = "l127"

\* C8: capture_screen, capture_window and the loop launched by
\* start_auto_refresh encode with the quality passed, brought into [1, 100].
C8_QualityClampedAlike ==
    /\ (result.op \in {"capture_screen", "capture_window"} /\ result.kind = "image")
           => result.v = Clamped(result.arg, 1, 100)
    /\ (result.op = "start" /\ result.kind = "started")
           => thr[refresh_thread].quality = Clamped(result.qarg, 1, 100)

\* C8 witness: a window was captured with a quality below the range, after a
\* loop had been launched with a quality below the range too: both use 1.
C8_Witness ==
    /\ result.op = "capture_window" /\ result.kind = "image"
    /\ result.arg < 1 /\ result.v = 1
    /\ refresh_thread # 0 /\ thr[refresh_thread].quality = 1

\* C9: read_file on an existing file whose open and read succeed returns the
\* content when the size is at most 1048576; when the size is greater it
\* returns the refusal with the size in MB (two decimals), no content, and
\* never opens the file.
C9_ReadFileSizeLimit ==
    (fs.op = "read_file" /\ fs.exists)
        => /\ (fs.size <= 1048576 /\ fs.open_ok)
                  => (fs.kind = "content" /\ fs.content /\ fs.opened)
           /\ fs.size > 1048576
                  => /\ fs.kind = "too_large"
                     /\ ~fs.content
                     /\ ~fs.opened
                     /\ Len(fs.mb) = 1
                     /\ 2 * (fs.mb[1] * 1048576 - fs.size * 100) <= 1048576
                     /\ 2 * (fs.size * 100 - fs.mb[1] * 1048576) <= 1048576

\* C9 witness: a file of exactly 1048576 bytes was read.
C9_Witness ==
    fs.op = "read_file" /\ fs.size = 1048576 /\ fs.kind = "content"

\* C10: the rows list_directory returns are the entries of the directory,
\* each once, every directory before every file, names ascending within the
\* directories and within the files, and the size of a directory row blank.
C10_ListingSorted ==
    (fs.op = "list_directory" /\ fs.kind = "listing")
        => LET rows == fs.rows
               n == Len(fs.listing)
           IN  /\ Len(rows) = n
               /\ \A i \in 1..n : \E j \in 1..n :
                      /\ rows[j].name = fs.listing[i].name
                      /\ (rows[j].type = "Directory") = (fs.listing[i].kind = "dir")
               /\ \A i, j \in 1..n : i < j =>
                      /\ ~(rows[i].type = "File" /\ rows[j].type = "Directory")
                      /\ rows[i].type = rows[j].type
                             => NameLess(rows[i].name, rows[j].name)
               /\ \A i \in 1..n : rows[i].type = "Directory" => rows[i].size_str = <<>>

\* C10 witness: the directory of the example, ["b", "a", "ab"/] with "ab" a
\* directory, listed as ab, a, b.
C10_Witness ==
    /\ fs.op = "list_directory" /\ fs.kind = "listing"
    /\ Len(fs.listing) = 3
    /\ fs.listing[1].name = <<98>> /\ fs.listing[1].kind = "file"
    /\ fs.listing[2].name = <<97>> /\ fs.listing[2].kind = "file"
    /\ fs.listing[3].name = <<97, 98>> /\ fs.listing[3].kind = "dir"
    /\ fs.rows[1].name = <<97, 98>> /\ fs.rows[2].name = <<97>> /\ fs.rows[3].name = <<98>>

\* s occurs in text as a run of consecutive characters
Contains(s, text) ==
    \E i \in 0..(Len(text) - Len(s)) : SubSeq(text, i + 1, i + Len(s)) = s

\* C11: when the command finishes within the timeout, the text execute_command
\* returns holds the command's standard output and its standard error, both
\* of them, next to the exit code.
C11_BothOutputsReturned ==
    (fs.op = "execute_command" /\ fs.kind = "finished")
        => /\ Contains(fs.stdout, fs.text)
           /\ Contains(fs.stderr, fs.text)
           /\ Contains(<<ExitText(fs.returncode)>>, fs.text)

\* C12: once stop_auto_refresh has cleared the flag and returned its
\* confirmation, the capture thread it stopped (the one _refresh_thread names,
\* alive when stop returns) eventually ends.
C12_StoppedThreadExits ==
    \A t \in Threads :
        (result.op = "stop" /\ result.kind = "stopped"
             /\ refresh_thread = t /\ IsAlive(t))
            ~> ~IsAlive(t)

\* C13: a capture or encode failure in the background loop (lines 118-122
\* raising) does not end the loop and does not change the stored frame, its
\* timestamp or the running flag: the thread goes to the sleep of line 129 and
\* from there back to the check of line 115.  A thread leaves the loop only
\* at that check, and only when the flag is cleared; it ends only after
\* having left the loop that way.
C13_FailureKeepsLooping ==
    [][\A t \in Threads :
        /\ (thr[t].pc = "l118" /\ thr'[t].pc # "l118")
               => /\ thr'[t].pc \in {"l123", "l129"}
                  /\ UNCHANGED <<last_screenshot, last_screenshot_time,
                                 refresh_active>>
        /\ (thr[t].pc = "l129" /\ thr'[t].pc # "l129")
               => /\ thr'[t].pc = "l115"
                  /\ UNCHANGED <<last_screenshot, last_screenshot_time,
                                 refresh_active>>
        /\ (thr[t].pc # "l132" /\ thr'[t].pc = "l132")
               => (thr[t].pc = "l115" /\ ~refresh_active)
        /\ (IsAlive(t) /\ ~IsAlive(t)') => thr[t].pc = "l132"
    ]_vars

\* a thread that stored a frame has since failed to capture and sleeps before
\* it retries: the frame and its timestamp are still stored, the flag is set
C13_Witness ==
    \E t \in Threads :
        /\ thr[t].pc = "l129"
        /\ refresh_active
        /\ last_screenshot = 1 /\ last_screenshot_time = 1
        /\ \A u \in Threads \ {t} : thr[u].pc = "unborn"

\* C14: stop_auto_refresh answers "not currently running" only when no capture
\* thread is alive at the call; with a thread alive (one that has not yet run
\* line 114 included) it clears the flag and answers "stopped".
C14_NotRunningOnlyWithoutThread ==
    (result.op = "stop" /\ result.kind = "not_running")
        => result.ctx = "no_thread"

\* C15: once the thread launched by the most recent start_auto_refresh has
\* stored a frame, and until stop_auto_refresh is called, get_last_screenshot
\* returns a frame: the line 132 of a thread of an earlier start does not
\* erase what the newer thread stored.
C15_NewerFrameSurvives ==
    (result.op = "get" /\ result.ctx = "newest_stored")
        => result.kind = "frame"

=============================================================================
